---- MODULE Spec2Model ----
(***************************************************************************)
(* Model of scottfrazer/musicquiz: the music-theory engine (music.rs) and  *)
(* the page-driven terminal loop (main.rs).                                *)
(*                                                                         *)
(* A Note is a record [spelling, pitch_class]; pitch_class is a Rust i8.   *)
(* Rust's % is the truncated remainder (sign of the dividend), modelled by *)
(* Rem.  Characters are one-letter strings; " " is the blank char returned *)
(* by pitch_class_to_letter for a pitch class outside 0..11.               *)
(***************************************************************************)
EXTENDS Integers, Naturals, Sequences, FiniteSets, TLC

\* ---------------------------------------------------------------- bounds
\* largest pitch class a note may hold before Note::incr / Note::add is
\* applied to it again (Note::incr never reduces, so the value would grow)
MaxPc == 24
\* largest magnitude of the adjustment handed to Note::add
MaxHalfSteps == 12
\* number of keys the run loop reads in one explored run
MaxKeys == 4

\* ------------------------------------------------------- music.rs: data
ALPHABET == <<"A", "B", "C", "D", "E", "F", "G">>

Letters == {ALPHABET[i] : i \in 1..Len(ALPHABET)}

Biases == {"Flat", "Sharp"}

\* enum Interval, cast with `as i8`: the discriminant of each variant
IntervalValue ==
  [Unison |-> 0, MinorSecond |-> 1, MajorSecond |-> 2, MinorThird |-> 3,
   MajorThird |-> 4, PerfectFourth |-> 5, Tritone |-> 6, PerfectFifth |-> 7,
   MinorSixth |-> 8, MajorSixth |-> 9, MinorSeventh |-> 10,
   MajorSeventh |-> 11]

Intervals == DOMAIN IntervalValue

\* enum ScaleType, in declaration order
ScaleTypeDecl ==
  <<"Major", "Minor", "Dorian", "Phrygian", "Lydian", "Mixolydian", "Locrian">>

ScaleTypes == {ScaleTypeDecl[i] : i \in 1..Len(ScaleTypeDecl)}

\* Rust's a % b on signed integers, b > 0
Rem(a, b) == IF a >= 0 THEN a % b ELSE 0 - ((0 - a) % b)

interval_pattern(t) ==
  CASE t = "Major"      -> <<0, 2, 2, 1, 2, 2, 2, 1>>
    [] t = "Minor"      -> <<0, 2, 1, 2, 2, 1, 2, 2>>
    [] t = "Dorian"     -> <<0, 2, 1, 2, 2, 2, 1, 2>>
    [] t = "Phrygian"   -> <<0, 1, 2, 2, 2, 1, 2, 2>>
    [] t = "Lydian"     -> <<0, 2, 2, 2, 1, 2, 2, 1>>
    [] t = "Mixolydian" -> <<0, 2, 2, 1, 2, 2, 1, 2>>
    [] t = "Locrian"    -> <<0, 1, 2, 2, 1, 2, 2, 2>>

\* ScaleType::all with Minor and Dorian listed in the other order
ScaleType_all_swapped ==
  <<"Major", "Dorian", "Minor", "Phrygian", "Lydian", "Mixolydian", "Locrian">>

ScaleType_all ==
  <<"Major", "Minor", "Dorian", "Phrygian", "Lydian", "Mixolydian", "Locrian">>

\* Distribution<ScaleType>::sample, given the value drawn by gen_range(0..7)
sample(r) ==
  CASE r = 0 -> "Major"
    [] r = 1 -> "Minor"
    [] r = 2 -> "Dorian"
    [] r = 3 -> "Phrygian"
    [] r = 4 -> "Lydian"
    [] r = 5 -> "Mixolydian"
    [] r = 6 -> "Locrian"
    [] OTHER -> "Major"

\* the inner loop of base: push ALPHABET[j % 7] for j in i..i+7 (0-based i)
RECURSIVE baseRotation(_, _)
baseRotation(i, n) ==
  IF n = 0 THEN <<>>
  ELSE Append(baseRotation(i, n - 1),
              ALPHABET[((i + n - 1) % Len(ALPHABET)) + 1])

\* the outer loop of base over the first k entries of ALPHABET
RECURSIVE baseUpTo(_, _)
baseUpTo(letter, k) ==
  IF k = 0 THEN <<>>
  ELSE baseUpTo(letter, k - 1) \o
       (IF ALPHABET[k] = letter THEN baseRotation(k - 1, Len(ALPHABET))
        ELSE <<>>)

\* base with the rotation started one letter late (for j in i+1..)
base_lateStart(letter) ==
  LET b == baseUpTo(letter, Len(ALPHABET)) IN
  IF b = <<>> THEN b ELSE Tail(b) \o <<b[1]>>

base(letter) == baseUpTo(letter, Len(ALPHABET))

pitch_class(letter) ==
  CASE letter = "C" -> 0
    [] letter = "D" -> 2
    [] letter = "E" -> 4
    [] letter = "F" -> 5
    [] letter = "G" -> 7
    [] letter = "A" -> 9
    [] letter = "B" -> 11
    [] OTHER -> 127

\* the accidental suffixes; the musical glyphs are written by code point
Suffixes ==
  {"", "#", "##", "b", "bb", "U+266F", "U+266F U+266F", "U+1D12A",
   "U+266D", "U+266D U+266D", "U+1D12B"}

parse_adjustment(suffix) ==
  CASE suffix \in {"##", "U+266F U+266F", "U+1D12A"} -> 2
    [] suffix \in {"#", "U+266F"} -> 1
    [] suffix \in {"b", "U+266D"} -> 0 - 1
    [] suffix \in {"bb", "U+266D U+266D", "U+1D12B"} -> 0 - 2
    [] OTHER -> 0

pitch_class_to_letter(pc, bias) ==
  LET m == Rem(pc, 12) IN
  IF bias = "Sharp"
  THEN CASE m \in {0, 1} -> "C"
         [] m \in {2, 3} -> "D"
         [] m = 4 -> "E"
         [] m \in {5, 6} -> "F"
         [] m \in {7, 8} -> "G"
         [] m \in {9, 10} -> "A"
         [] m = 11 -> "B"
         [] OTHER -> " "
  ELSE CASE m = 0 -> "C"
         [] m \in {1, 2} -> "D"
         [] m \in {3, 4} -> "E"
         [] m = 5 -> "F"
         [] m \in {6, 7} -> "G"
         [] m \in {8, 9} -> "A"
         [] m \in {10, 11} -> "B"
         [] OTHER -> " "

\* ------------------------------------------------------ music.rs: Note
\* Note::add without the reduction by 12
Note_add_noReduce(self, adjustment, spelling) ==
  [spelling |-> spelling, pitch_class |-> self.pitch_class + adjustment]

Note_add(self, adjustment, spelling) ==
  [spelling |-> spelling,
   pitch_class |-> Rem(self.pitch_class + adjustment, 12)]

Note_incr(self, interval, bias) ==
  LET pc == self.pitch_class + IntervalValue[interval] IN
  [pitch_class |-> pc, spelling |-> pitch_class_to_letter(pc, bias)]

Note_adjustment(self) ==
  IF self.pitch_class = 11 /\ self.spelling = "C"
  THEN 0 - 1
  ELSE self.pitch_class - pitch_class(self.spelling)

\* the glyphs are written by name; "invalid" is the out-of-range branch
Note_string(self) ==
  LET a == Note_adjustment(self) IN
  CASE a = 2 -> <<self.spelling, "double-sharp">>
    [] a = 1 -> <<self.spelling, "sharp">>
    [] a = 0 -> <<self.spelling>>
    [] a = 0 - 1 -> <<self.spelling, "flat">>
    [] a = 0 - 2 -> <<self.spelling, "double-flat">>
    [] OTHER -> <<"invalid">>

\* s = letter followed by suffix; split_at(1) separates the two
Note_parse(letter, suffix) ==
  [spelling |-> letter,
   pitch_class |-> Rem(pitch_class(letter) + parse_adjustment(suffix), 12)]

Note_new(spelling, pc) ==
  [spelling |-> spelling, pitch_class |-> Rem(pc, 12)]

circle_of_fifths ==
  <<Note_parse("C", ""), Note_parse("F", ""), Note_parse("B", "b"),
    Note_parse("E", "b"), Note_parse("A", "b"), Note_parse("D", "b"),
    Note_parse("G", "b"), Note_parse("F", "#"), Note_parse("B", ""),
    Note_parse("E", ""), Note_parse("A", ""), Note_parse("D", ""),
    Note_parse("G", "")>>

\* ----------------------------------------------------- music.rs: Scale
\* interval_pattern()[..n].iter().sum()
RECURSIVE SumPrefix(_, _)
SumPrefix(pattern, n) ==
  IF n = 0 THEN 0 ELSE SumPrefix(pattern, n - 1) + pattern[n]

Scale_new(tonic, scale_type) ==
  LET letters == base(tonic.spelling) IN
  [notes |-> [j \in 1..Len(letters) |->
                Note_add(tonic, SumPrefix(interval_pattern(scale_type), j),
                         letters[j])],
   scale_type |-> scale_type]

\* Note::string of every note, joined by " "
RECURSIVE JoinStrings(_, _)
JoinStrings(notes, n) ==
  IF n = 0 THEN <<>>
  ELSE IF n = 1 THEN Note_string(notes[1])
  ELSE JoinStrings(notes, n - 1) \o <<" ">> \o Note_string(notes[n])

Scale_string(self) == JoinStrings(self.notes, Len(self.notes))

\* the loop of impl Clone for Scale: push *ele for every element
RECURSIVE PushNotes(_, _)
PushNotes(notes, n) ==
  IF n = 0 THEN <<>> ELSE Append(PushNotes(notes, n - 1), notes[n])

\* impl Clone for Scale whose result starts from an empty Vec and stays so
Clone_for_Scale_clone_noNotes(self) ==
  [notes |-> <<>>, scale_type |-> self.scale_type]

\* impl Clone for Scale :: clone
Clone_for_Scale_clone(self) ==
  [notes |-> PushNotes(self.notes, Len(self.notes)),
   scale_type |-> self.scale_type]

\* the inherent, private Scale::clone
Scale_clone(self) ==
  [notes |-> <<>>, scale_type |-> self.scale_type]

\* where a call scale.clone() is written: inside music.rs, or in page code
CallSites == {"music", "page"}

\* which clone the call scale.clone() runs: the inherent method is private
\* to music.rs, so it is a candidate only for calls written there; a call
\* from any other module resolves to the Clone trait's method
MethodCall_clone(self, site) ==
  IF site = "music" THEN Scale_clone(self) ELSE Clone_for_Scale_clone(self)

\* ------------------------------------------- quiz question (from the spec)
\* the correct choice: the 1-indexed position of the scale's type in the
\* enumeration ScaleType::all(), found by scanning it from the front
correct_choice(scale_type) ==
  LET hits == {p \in 1..Len(ScaleType_all) : ScaleType_all[p] = scale_type}
  IN IF hits = {} THEN 0
     ELSE CHOOSE p \in hits : \A q \in hits : p <= q

\* ------------------------------------------------------ main.rs: pages
MainText == "=== Music Theory Quiz Game === [1] Intervals [2] Scale Types [3] Chords [q] Quit"

Page1Text == "1 2 3 4 5 6 7 8 9 10"

Page2Text == "A B C D E F G H I J"

\* console::Key values fed to the loop: Char(c) written as c, plus Enter
Keys == {"1", "2", "3", "q", "Q", "x", "Enter"}

QuitKeys == {"q", "Q"}

Action_Noop == [kind |-> "Noop", text |-> "", handler |-> ""]

Action_Destroy == [kind |-> "Destroy", text |-> "", handler |-> ""]

Action_Render(text, handler) ==
  [kind |-> "Render", text |-> text, handler |-> handler]

\* main_page_handler whose default arm draws the main menu again
main_page_handler_redraws(key) ==
  CASE key = "1" -> Action_Render(Page1Text, "main_page_handler")
    [] key = "2" -> Action_Render(Page2Text, "main_page_handler")
    [] key \in {"q", "Q"} -> Action_Destroy
    [] OTHER -> Action_Render(MainText, "main_page_handler")

\* main_page_handler that also terminates on Enter
main_page_handler_quitOnEnter(key) ==
  CASE key = "1" -> Action_Render(Page1Text, "main_page_handler")
    [] key = "2" -> Action_Render(Page2Text, "main_page_handler")
    [] key \in {"q", "Q", "Enter"} -> Action_Destroy
    [] OTHER -> Action_Noop

\* main_page_handler without the arm for the lower-case 'q'
main_page_handler_noLowerQ(key) ==
  CASE key = "1" -> Action_Render(Page1Text, "main_page_handler")
    [] key = "2" -> Action_Render(Page2Text, "main_page_handler")
    [] key = "Q" -> Action_Destroy
    [] OTHER -> Action_Noop

main_page_handler(key) ==
  CASE key = "1" -> Action_Render(Page1Text, "main_page_handler")
    [] key = "2" -> Action_Render(Page2Text, "main_page_handler")
    [] key \in {"q", "Q"} -> Action_Destroy
    [] OTHER -> Action_Noop

main_page == [text |-> MainText, handler |-> "main_page_handler"]

\* calling the function pointer held in `handler`
CallHandler(h, key) ==
  CASE h = "main_page_handler" -> main_page_handler(key)

\* ----------------------------------------------------------------- state
VARIABLES
  \* engine: the last operation applied and its operands / result
  op,           \* "none", "parse", "add", "incr", "new", "scale", "question"
  note,         \* the Note produced by the last Note operation
  operand,      \* the pitch class the last Note operation was applied to
  tonic,        \* the tonic handed to Scale::new
  scale,        \* the Scale built by Scale::new
  rngIndex,     \* the value gen_range(0..7) returned for the question
  correct,      \* the correct-choice number recorded for the question
  cloned,       \* the result of the last scale.clone()
  cloneSite,    \* where that call was written: "none", "music", "page"
  \* terminal program
  phase,        \* "start", "run", "loop", "destroy", "exited", "panicked"
  cursorHidden, \* the terminal's cursor is hidden
  destroyCalled,\* QuizScreen::destroy has been called
  runResult,    \* "none", "ok" (run returned Ok), "err" (run returned Err)
  handler,      \* run's local `handler`
  text,         \* the text of the page on the screen
  nkeys,        \* keys read by run so far
  nrenders,     \* completed calls of render
  lastKey,      \* the key handled last
  lastAction,   \* the kind of Action the handler returned for it
  prevText      \* the text on the screen when that key was read

engineVars == <<op, note, operand, tonic, scale, rngIndex, correct, cloned,
                cloneSite>>

screenVars == <<phase, cursorHidden, destroyCalled, runResult, handler, text,
                nkeys, nrenders, lastKey, lastAction, prevText>>

vars == <<op, note, operand, tonic, scale, rngIndex, correct, cloned,
          cloneSite,
          phase, cursorHidden, destroyCalled, runResult, handler, text,
          nkeys, nrenders, lastKey, lastAction, prevText>>

NoScale == [notes |-> <<>>, scale_type |-> "Major"]

Init ==
  /\ op = "none"
  /\ note = circle_of_fifths[1]
  /\ operand = 0
  /\ tonic = circle_of_fifths[1]
  /\ scale = NoScale
  /\ rngIndex = 0
  /\ correct = 0
  /\ cloned = NoScale
  /\ cloneSite = "none"
  /\ phase = "start"
  /\ cursorHidden = FALSE
  /\ destroyCalled = FALSE
  /\ runResult = "none"
  /\ handler = ""
  /\ text = ""
  /\ nkeys = 0
  /\ nrenders = 0
  /\ lastKey = ""
  /\ lastAction = "none"
  /\ prevText = ""

\* --------------------------------------------------------- engine steps
\* The engine is pure: a run draws a note (Parse, New) or a question
\* (GenerateQuestion), transposes the note any number of times (Add, Incr)
\* and may finally build a scale on it (MakeScale).
NoteStep(o, n, x) ==
  /\ op' = o
  /\ note' = n
  /\ operand' = x
  /\ tonic' = n
  /\ scale' = NoScale
  /\ rngIndex' = 0
  /\ correct' = 0
  /\ UNCHANGED <<cloned, cloneSite>>
  /\ UNCHANGED screenVars

Parse ==
  /\ op = "none"
  /\ \E letter \in Letters, suffix \in Suffixes :
    NoteStep("parse", Note_parse(letter, suffix), pitch_class(letter))

Add ==
  /\ op \in {"parse", "add", "incr", "new"}
  /\ note.pitch_class \in (0 - MaxPc)..MaxPc
  /\ \E adjustment \in (0 - MaxHalfSteps)..MaxHalfSteps, spelling \in Letters :
       NoteStep("add", Note_add(note, adjustment, spelling), note.pitch_class)

Incr ==
  /\ op \in {"parse", "add", "incr", "new"}
  /\ note.pitch_class \in (0 - MaxPc)..MaxPc
  /\ \E interval \in Intervals, bias \in Biases :
       NoteStep("incr", Note_incr(note, interval, bias), note.pitch_class)

New ==
  /\ op = "none"
  /\ \E spelling \in Letters, p \in (0 - MaxPc)..MaxPc :
    NoteStep("new", Note_new(spelling, p), p)

\* Scale::new on the note under study
MakeScale ==
  /\ op \in {"parse", "add", "incr", "new"}
  /\ \E scale_type \in ScaleTypes :
       /\ op' = "scale"
       /\ tonic' = note
       /\ scale' = Scale_new(note, scale_type)
       /\ UNCHANGED <<note, operand, rngIndex, correct, cloned, cloneSite>>
       /\ UNCHANGED screenVars

\* a quiz question: random tonic of the pool, random type, recorded answer
GenerateQuestion ==
  /\ op = "none"
  /\ \E i \in 1..Len(circle_of_fifths), r \in 0..6 :
    /\ op' = "question"
    /\ note' = circle_of_fifths[i]
    /\ operand' = 0
    /\ tonic' = circle_of_fifths[i]
    /\ scale' = Scale_new(circle_of_fifths[i], sample(r))
    /\ rngIndex' = r
    /\ correct' = correct_choice(sample(r))
    /\ UNCHANGED <<cloned, cloneSite>>
    /\ UNCHANGED screenVars

\* scale.clone() on the scale just built, written at either call site
CloneScale ==
  /\ op \in {"scale", "question"}
  /\ cloneSite = "none"
  /\ \E site \in CallSites :
       /\ cloned' = MethodCall_clone(scale, site)
       /\ cloneSite' = site
  /\ UNCHANGED <<op, note, operand, tonic, scale, rngIndex, correct>>
  /\ UNCHANGED screenVars

MusicNext ==
  Parse \/ Add \/ Incr \/ New \/ MakeScale \/ GenerateQuestion \/ CloneScale

MusicSpec == Init /\ [][MusicNext]_vars

\* ------------------------------------------------------- program steps
\* screen.init(): hide_cursor, flush
InitOk ==
  /\ phase = "start"
  /\ phase' = "run"
  /\ cursorHidden' = TRUE
  /\ UNCHANGED <<destroyCalled, runResult, handler, text, nkeys, nrenders,
                 lastKey, lastAction, prevText>>
  /\ UNCHANGED engineVars

\* init returns Err and main's unwrap panics; the escape sequence may or
\* may not have reached the terminal
InitFails ==
  /\ phase = "start"
  /\ phase' = "panicked"
  /\ cursorHidden' \in BOOLEAN
  /\ UNCHANGED <<destroyCalled, runResult, handler, text, nkeys, nrenders,
                 lastKey, lastAction, prevText>>
  /\ UNCHANGED engineVars

\* run: self.render(start)?; let mut handler = start.handler
RenderStart ==
  /\ phase = "run"
  /\ phase' = "loop"
  /\ text' = main_page.text
  /\ handler' = main_page.handler
  /\ nrenders' = nrenders + 1
  /\ UNCHANGED <<cursorHidden, destroyCalled, runResult, nkeys, lastKey,
                 lastAction, prevText>>
  /\ UNCHANGED engineVars

\* the first render fails (I/O error or panic): run ends, main panics
RenderStartFails ==
  /\ phase = "run"
  /\ phase' = "panicked"
  /\ runResult' = "err"
  /\ text' \in {text, main_page.text}
  /\ UNCHANGED <<cursorHidden, destroyCalled, handler, nkeys, nrenders,
                 lastKey, lastAction, prevText>>
  /\ UNCHANGED engineVars

\* read_key fails: run returns Err, main's unwrap panics
ReadKeyFails ==
  /\ phase = "loop"
  /\ phase' = "panicked"
  /\ runResult' = "err"
  /\ UNCHANGED <<cursorHidden, destroyCalled, handler, text, nkeys, nrenders,
                 lastKey, lastAction, prevText>>
  /\ UNCHANGED engineVars

\* one iteration of run's loop in which every I/O call succeeds
KeyPress ==
  /\ phase = "loop"
  /\ nkeys < MaxKeys
  /\ \E key \in Keys :
       LET a == CallHandler(handler, key) IN
       /\ nkeys' = nkeys + 1
       /\ lastKey' = key
       /\ lastAction' = a.kind
       /\ prevText' = text
       /\ handler' = IF a.kind = "Render" THEN a.handler ELSE handler
       /\ text' = IF a.kind = "Render" THEN a.text ELSE text
       /\ nrenders' = IF a.kind = "Render" THEN nrenders + 1 ELSE nrenders
       /\ phase' = IF a.kind = "Destroy" THEN "destroy" ELSE "loop"
       /\ runResult' = IF a.kind = "Destroy" THEN "ok" ELSE runResult
  /\ UNCHANGED <<cursorHidden, destroyCalled>>
  /\ UNCHANGED engineVars

\* one iteration in which the handler asks for a render and the render fails
KeyPressRenderFails ==
  /\ phase = "loop"
  /\ nkeys < MaxKeys
  /\ \E key \in Keys :
       LET a == CallHandler(handler, key) IN
       /\ a.kind = "Render"
       /\ nkeys' = nkeys + 1
       /\ lastKey' = key
       /\ lastAction' = a.kind
       /\ prevText' = text
       /\ handler' = a.handler
       /\ text' \in {text, a.text}
  /\ phase' = "panicked"
  /\ runResult' = "err"
  /\ UNCHANGED <<cursorHidden, destroyCalled, nrenders>>
  /\ UNCHANGED engineVars

\* screen.destroy(): show_cursor, clear_screen, flush
DestroyOk ==
  /\ phase = "destroy"
  /\ phase' = "exited"
  /\ destroyCalled' = TRUE
  /\ cursorHidden' = FALSE
  /\ text' = ""
  /\ UNCHANGED <<runResult, handler, nkeys, nrenders, lastKey, lastAction,
                 prevText>>
  /\ UNCHANGED engineVars

\* destroy returns Err and main's unwrap panics
DestroyFails ==
  /\ phase = "destroy"
  /\ phase' = "panicked"
  /\ destroyCalled' = TRUE
  /\ cursorHidden' \in BOOLEAN
  /\ text' \in {text, ""}
  /\ UNCHANGED <<runResult, handler, nkeys, nrenders, lastKey, lastAction,
                 prevText>>
  /\ UNCHANGED engineVars

Next ==
  \/ InitOk \/ InitFails \/ RenderStart \/ RenderStartFails
  \/ ReadKeyFails \/ KeyPress \/ KeyPressRenderFails
  \/ DestroyOk \/ DestroyFails

Spec == Init /\ [][Next]_vars

\* ================================================================ claims
IsScale == op \in {"scale", "question"}

InPool(n) == \E i \in 1..Len(circle_of_fifths) : circle_of_fifths[i] = n

ScaleLetters == [j \in 1..Len(scale.notes) |-> scale.notes[j].spelling]

ScalePitchClasses == [j \in 1..Len(scale.notes) |-> scale.notes[j].pitch_class]

\* the letter after each natural letter, G wrapping round to A
NextLetter(l) ==
  CASE l = "A" -> "B" [] l = "B" -> "C" [] l = "C" -> "D" [] l = "D" -> "E"
    [] l = "E" -> "F" [] l = "F" -> "G" [] l = "G" -> "A"

\* C1: for every tonic spelled with a natural letter L and every ScaleType,
\* Scale::new yields exactly 7 notes whose letters are 7 distinct natural
\* letters, the first being L, each following its predecessor in the cyclic
\* order of the alphabet.
C1_SevenDistinctLetters ==
  (IsScale /\ tonic.spelling \in Letters) =>
    /\ Len(scale.notes) = 7
    /\ {ScaleLetters[j] : j \in 1..Len(scale.notes)} = Letters
    /\ \A j, k \in 1..Len(scale.notes) :
         j # k => ScaleLetters[j] # ScaleLetters[k]
    /\ ScaleLetters[1] = tonic.spelling
    /\ \A j \in 1..(Len(scale.notes) - 1) :
         ScaleLetters[j + 1] = NextLetter(ScaleLetters[j])

C1_Witness ==
  /\ op = "scale"
  /\ tonic.spelling = "F"
  /\ scale.scale_type = "Locrian"
  /\ ScaleLetters = <<"F", "G", "A", "B", "C", "D", "E">>

\* C2: for every tonic of the circle-of-fifths pool and every ScaleType,
\* degree j of the scale has pitch class (tonic pitch class + sum of the
\* first j+1 pattern entries) mod 12, in 0..11; C Major is 0,2,4,5,7,9,11
\* spelled C..B and A Minor is 9,11,0,2,4,5,7 spelled A..G, all natural.
C2_DegreePitchClasses ==
  (IsScale /\ InPool(tonic)) =>
    /\ Len(scale.notes) = 7
    /\ \A j \in 1..Len(scale.notes) :
         /\ ScalePitchClasses[j] =
              (tonic.pitch_class
                 + SumPrefix(interval_pattern(scale.scale_type), j)) % 12
         /\ ScalePitchClasses[j] \in 0..11
    /\ (tonic = Note_parse("C", "") /\ scale.scale_type = "Major") =>
         /\ ScalePitchClasses = <<0, 2, 4, 5, 7, 9, 11>>
         /\ ScaleLetters = <<"C", "D", "E", "F", "G", "A", "B">>
         /\ \A j \in 1..7 : Note_adjustment(scale.notes[j]) = 0
    /\ (tonic = Note_parse("A", "") /\ scale.scale_type = "Minor") =>
         /\ ScalePitchClasses = <<9, 11, 0, 2, 4, 5, 7>>
         /\ ScaleLetters = <<"A", "B", "C", "D", "E", "F", "G">>
         /\ \A j \in 1..7 : Note_adjustment(scale.notes[j]) = 0

C2_Witness ==
  /\ op = "question"
  /\ tonic = Note_parse("A", "")
  /\ scale.scale_type = "Minor"
  /\ ScalePitchClasses = <<9, 11, 0, 2, 4, 5, 7>>

\* C3: a key handled at the main menu: '1' renders the page of choice 1,
\* '2' and '3' each render the page of choice 2, 'q'/'Q' terminate, every
\* other key is a no-op.
C3_MainMenuKeys ==
  (lastAction # "none" /\ prevText = MainText) =>
    /\ lastKey = "1" =>
         (lastAction = "Render" /\ (runResult # "err" => text = Page1Text))
    /\ lastKey \in {"2", "3"} =>
         (lastAction = "Render" /\ (runResult # "err" => text = Page2Text))
    /\ lastKey \in QuitKeys => lastAction = "Destroy"
    /\ lastKey \notin {"1", "2", "3", "q", "Q"} => lastAction = "Noop"

\* the position of a type in the declaration of enum ScaleType
DeclPosition(t) == CHOOSE p \in 1..Len(ScaleTypeDecl) : ScaleTypeDecl[p] = t

\* C4: the true type S of a quiz question occurs exactly once in
\* ScaleType::all, which lists the 7 variants in declaration order, and the
\* recorded correct choice is S's 1-indexed position there, for every index
\* the sampler can draw.
C4_CorrectChoiceIsPosition ==
  (op = "question") =>
    /\ scale.scale_type = sample(rngIndex)
    /\ ScaleType_all = ScaleTypeDecl
    /\ Cardinality({p \in 1..Len(ScaleType_all) :
                      ScaleType_all[p] = scale.scale_type}) = 1
    /\ correct \in 1..7
    /\ ScaleType_all[correct] = scale.scale_type
    /\ correct = DeclPosition(scale.scale_type)

C4_Witness ==
  /\ op = "question"
  /\ scale.scale_type = "Locrian"
  /\ rngIndex = 6
  /\ correct = 7

\* the keys main_page_handler has an arm for
RecognisedKeys == {"1", "2", "q", "Q"}

\* C5: a key the main-menu handler does not recognise yields the no-op
\* action and leaves the loop's page as it was: same handler, same text on
\* the screen, no render.
C5_UnrecognisedKeyIsNoop ==
  [][(phase = "loop" /\ nkeys' = nkeys + 1 /\ lastKey' \notin RecognisedKeys)
       => /\ lastAction' = "Noop"
          /\ handler' = handler
          /\ text' = text
          /\ nrenders' = nrenders
          /\ phase' = "loop"]_vars

C5_Witness ==
  /\ phase = "loop"
  /\ nkeys >= 3
  /\ lastKey = "Enter"
  /\ lastAction = "Noop"
  /\ prevText = Page2Text
  /\ text = Page2Text

\* C6: in every run in which init has hidden the cursor, destroy has been
\* called by the time the process has ended, whether it ended normally, by
\* an I/O error or by a panic.
C6_ReleaseAlwaysRuns ==
  (phase \in {"exited", "panicked"} /\ cursorHidden) => destroyCalled

\* C7: the loop ends normally exactly when the key just handled is 'q' or
\* 'Q': on every page such a key yields the terminate action and the loop
\* stops without reading another key; no other key ends the loop.
C7_ExitExactlyOnQuit ==
  /\ [](runResult = "ok" <=> (lastAction = "Destroy" /\ lastKey \in QuitKeys))
  /\ [](lastAction # "none" => (lastKey \in QuitKeys <=> lastAction = "Destroy"))
  /\ [](lastAction = "Destroy" => phase \notin {"run", "loop"})
  /\ [][lastAction = "Destroy" => nkeys' = nkeys]_vars

C7_Witness ==
  /\ runResult = "ok"
  /\ lastKey = "Q"
  /\ prevText = Page1Text
  /\ nkeys >= 2

\* C8: every Note has a pitch class in 0..11: the result of Note::parse on
\* a natural letter with a recognised suffix, and the result of Note::add,
\* Note::incr and Note::new applied to a pitch class already in 0..11.
C8_PitchClassInRange ==
  /\ op = "parse" => note.pitch_class \in 0..11
  /\ (op \in {"add", "incr", "new"} /\ operand \in 0..11)
       => note.pitch_class \in 0..11

\* C9: every note of a scale built on a tonic of the circle-of-fifths pool
\* has an adjustment in -2..2, so Note::string never renders "invalid".
C9_AdjustmentInRange ==
  (IsScale /\ InPool(tonic)) =>
    \A j \in 1..Len(scale.notes) :
      /\ Note_adjustment(scale.notes[j]) \in (0 - 2)..2
      /\ Note_string(scale.notes[j]) # <<"invalid">>

\* C10 as stated: a key pressed on the page reached by '2' brings the main
\* menu back and never yields the terminate action.
C10_PlaceholderReturnsToMenu ==
  (lastAction # "none" /\ prevText = Page2Text) =>
    /\ lastAction # "Destroy"
    /\ runResult # "err" => text = MainText

\* C10 amended: on the page reached by '2' the main-menu handler stays the
\* active handler after every key, the main-menu text is not drawn again,
\* and 'q'/'Q' pressed there do yield the terminate action; while the loop
\* has not ended the main-menu handler is the one in force.
C10_MenuHandlerStaysActive ==
  /\ phase = "loop" => handler = "main_page_handler"
  /\ (lastAction # "none" /\ prevText = Page2Text) =>
       /\ handler = "main_page_handler"
       /\ text # MainText
       /\ lastKey \in QuitKeys => lastAction = "Destroy"
       /\ lastAction = "Destroy" => lastKey \in QuitKeys

C10_Witness ==
  /\ prevText = Page2Text
  /\ lastKey = "q"
  /\ lastAction = "Destroy"
  /\ phase = "destroy"

C11_InherentCloneDropsNotes ==
  (cloneSite = "music") =>
    (cloned.notes = <<>> /\ cloned.scale_type = scale.scale_type)

====
